---- MODULE Spec2Model ----
(***************************************************************************)
(* Analytics core of the league dashboard (src/js/dashboard.js): the       *)
(* aggregation of results into cumulative points, positions and standings, *)
(* and the Poisson forecast chained over the future gameweeks.             *)
(*                                                                         *)
(* dashboard.js holds two dashboards over the same data file: v1 (init,    *)
(* calculateCumulativePoints) and v2 (the DOMContentLoaded handler,        *)
(* computeAll).  The state is the module-level state of v2, the table      *)
(* getStandings last returned, and the series v1's renderChart got from    *)
(* calculateCumulativePoints.  An action is one run of one handler or      *)
(* listener.                                                               *)
(***************************************************************************)
EXTENDS Integers, Sequences, FiniteSets, TLC

VARIABLES
  data,             \* the parsed data/results.json
  pc,               \* v2: "loaded", then "ready" or "failed" (the catch)
  error,            \* v2: the call of the handler that threw, "" for none
  standings,        \* v2: the table getStandings() last returned
  cumulativeCache,  \* v2: <<>> for null
  positionCache,    \* v2: <<>> for null
  predictions,      \* v2: Null for null
  selectedTeam,     \* v2: "" for null
  chartMode,        \* v2: "points" or "position"
  selectedGameweek, \* v2: 0 for null
  showProjections,  \* v2
  v1pc,             \* v1: "loaded", then "ready"
  cumulativePoints, \* v1: the series renderChart got, <<>> before
  predictionsDisplay, \* v2: style.display of #predictions-section
  upcomingDisplay,    \* v2: style.display of #upcoming-section
  projectedTraces     \* v2: the projected traces of the chart last drawn

vars == <<data, pc, error, standings, cumulativeCache, positionCache,
          predictions, selectedTeam, chartMode, selectedGameweek,
          showProjections, v1pc, cumulativePoints, predictionsDisplay,
          upcomingDisplay, projectedTraces>>

(***************************************************************************)
(* Bounds of the inputs.                                                   *)
(***************************************************************************)
\* largest score of one side in a historical fixture
MaxScore == 1
\* largest number of fixtures, historical and future together, in the file
\* (the files of Seasons apart)
MaxFixtures == 2
\* largest number of gameweeks in data.gameweeks, and in data.future_gameweeks
MaxGameweeks == 2

\* the team names that occur in the file
Names == {"A", "B", "C"}

\* the values of data.teams: unique names; with <<"B", "A">> the team "C" of a
\* fixture is a team that is not in teams
TeamLists ==
  { <<"A", "B", "C">>, <<"B", "A", "C">>, <<"C", "B", "A">>, <<"B", "A">> }

(***************************************************************************)
(* JavaScript numbers.  A number is <<n, d>>: with d > 0 the rational n/d  *)
(* in lowest terms, <<0, 0>> is NaN, <<1, 0>> is Infinity and <<-1, 0>> is *)
(* -Infinity.  The operators follow IEEE-754 on the special values;        *)
(* rounding is not modelled.                                               *)
(***************************************************************************)
NaN == <<0, 0>>

Infinity == <<1, 0>>

Abs(i) == IF i < 0 THEN -i ELSE i

Sgn(i) == IF i < 0 THEN -1 ELSE IF i = 0 THEN 0 ELSE 1

RECURSIVE GCD(_, _)
GCD(a, b) == IF b = 0 THEN a ELSE GCD(b, a % b)

\* the number n/d, d >= 0, in the representation above
Num(n, d) ==
  IF d = 0 THEN <<Sgn(n), 0>>
  ELSE LET g == GCD(Abs(n), d) IN <<n \div g, d \div g>>

IntNum(i) == <<i, 1>>

IsNaN(x) == x = NaN

IsFinite(x) == x[2] > 0

\* x + y
NumAdd(x, y) ==
  IF IsNaN(x) \/ IsNaN(y) THEN NaN
  ELSE IF ~IsFinite(x) /\ ~IsFinite(y) THEN (IF x = y THEN x ELSE NaN)
  ELSE IF ~IsFinite(x) THEN x
  ELSE IF ~IsFinite(y) THEN y
  ELSE LET m == (x[2] \div GCD(x[2], y[2])) * y[2]
       IN Num(x[1] * (m \div x[2]) + y[1] * (m \div y[2]), m)

NumNeg(x) == <<-x[1], x[2]>>

\* x - y
NumSub(x, y) == NumAdd(x, NumNeg(y))

\* x * y  (0 * Infinity is NaN)
NumMul(x, y) ==
  IF IsNaN(x) \/ IsNaN(y) THEN NaN
  ELSE Num(x[1] * y[1], x[2] * y[2])

\* x / y for y >= 0  (0/0 and Infinity/Infinity are NaN, n/0 is Infinity)
NumDiv(x, y) ==
  IF IsNaN(x) \/ IsNaN(y) THEN NaN
  ELSE Num(x[1] * y[2], x[2] * y[1])

\* the sign of x: 1, 0, -1; NaN has none and is reported as 2
NumSign(x) == IF IsNaN(x) THEN 2 ELSE Sgn(x[1])

\* x > 0, false of NaN
NumPos(x) == NumSign(x) = 1

\* x <= y, false when either is NaN
NumLE(x, y) == NumSign(NumSub(y, x)) \in {0, 1} /\ ~IsNaN(x) /\ ~IsNaN(y)

\* JavaScript's x || 0 for a number or undefined x: 0 for NaN and 0
OrZero(obj, k) ==
  IF k \in DOMAIN obj /\ ~IsNaN(obj[k]) THEN obj[k] ELSE IntNum(0)

(***************************************************************************)
(* The input file data/results.json.                                       *)
(***************************************************************************)
Fixtures ==
  { f \in [home : Names, away : Names,
           home_score : 0..MaxScore, away_score : 0..MaxScore] :
      f.home # f.away }

FutureFixtures == { f \in [home : Names, away : Names] : f.home # f.away }

SeqsUpTo(S, n) == UNION { [1..k -> S] : k \in 0..n }

RECURSIVE Sum(_)
Sum(ns) == IF ns = <<>> THEN 0 ELSE Head(ns) + Sum(Tail(ns))

\* the fixture lists of sizes sh cut from the sequence fs, in order
RECURSIVE Cut(_, _)
Cut(fs, sh) ==
  IF sh = <<>> THEN <<>>
  ELSE <<SubSeq(fs, 1, Head(sh))>> \o Cut(SubSeq(fs, Head(sh) + 1, Len(fs)), Tail(sh))

\* sequences of at most g fixture lists, each of `least` fixtures or more, with
\* at most n fixtures in all
FixtureLists(S, g, n, least) ==
  UNION { { Cut(fs, sh) : fs \in [1..Sum(sh) -> S] } :
          sh \in { x \in SeqsUpTo(least..n, g) : Sum(x) <= n } }

\* gameweeks are numbered from `first` in file order
Weeks(ss, first) ==
  [i \in 1..Len(ss) |-> [week |-> first + i - 1, fixtures |-> ss[i]]]

\* the fixtures of a list of gameweeks, in processing order
RECURSIVE Flatten(_)
Flatten(gws) ==
  IF gws = <<>> THEN <<>> ELSE Head(gws).fixtures \o Flatten(Tail(gws))

\* the files within the bounds; an absent future_gameweeks is the empty one,
\* and a future gameweek lists a fixture or more
DataSets ==
  UNION { UNION { { [teams |-> ts,
                     gameweeks |-> Weeks(h, 1),
                     future_gameweeks |-> Weeks(fu, Len(h) + 1)] :
                    ts \in TeamLists } :
                  fu \in FixtureLists(FutureFixtures, MaxGameweeks,
                                      MaxFixtures - Len(Flatten(Weeks(h, 1))), 1) } :
          h \in FixtureLists(Fixtures, MaxGameweeks, MaxFixtures, 0) }

\* seasons in progress, beyond MaxFixtures: the first team of three has hosted
\* the two others in one gameweek, and two future gameweeks of one fixture each
\* follow
Seasons ==
  { [teams |-> <<"A", "B", "C">>,
     gameweeks |-> Weeks(<< <<f1, f2>> >>, 1),
     future_gameweeks |-> Weeks(<< <<g1>>, <<g2>> >>, 2)] :
      f1 \in { f \in Fixtures : f.home = "A" /\ f.away = "B" },
      f2 \in { f \in Fixtures : f.home = "A" /\ f.away = "C" },
      g1 \in FutureFixtures, g2 \in FutureFixtures }

Range(s) == { s[i] : i \in 1..Len(s) }

\* every historical fixture plays two teams of data.teams
WellFormed(d) ==
  \A i \in 1..Len(d.gameweeks) :
    \A j \in 1..Len(d.gameweeks[i].fixtures) :
      LET f == d.gameweeks[i].fixtures[j] IN
        f.home \in Range(d.teams) /\ f.away \in Range(d.teams)

(***************************************************************************)
(* Core computations.                                                      *)
(***************************************************************************)
\* v1, getPointsForResult
getPointsForResult(teamScore, opponentScore) ==
  IF teamScore > opponentScore THEN 3
  ELSE IF teamScore = opponentScore THEN 1
  ELSE 0

ptsDrawAsLoss(gf, ga) == IF gf > ga THEN 3 ELSE 0

pts(gf, ga) == IF gf > ga THEN 3 ELSE IF gf = ga THEN 1 ELSE 0

PlusAssignOverwrite(obj, k, v) == (k :> IntNum(v)) @@ obj

\* obj[k] += v on an object of numbers: a missing key reads undefined, and
\* undefined + v is NaN, stored under the new key
PlusAssign(obj, k, v) ==
  IF k \in DOMAIN obj THEN [obj EXCEPT ![k] = NumAdd(@, IntNum(v))]
  ELSE obj @@ (k :> NaN)

\* the inner forEach of computeCumulative over one gameweek's fixtures
RECURSIVE AddFixtures(_, _)
AddFixtures(totals, fs) ==
  IF fs = <<>> THEN totals
  ELSE LET f == Head(fs)
           t1 == PlusAssign(totals, f.home, pts(f.home_score, f.away_score))
           t2 == PlusAssign(t1, f.away, pts(f.away_score, f.home_score))
       IN AddFixtures(t2, Tail(fs))

CumulativeShared(totals, gws) ==
  [i \in 1..Len(gws) |-> AddFixtures(totals, Flatten(gws))]

\* the map of computeCumulative: the snapshots of gameweeks gws from totals
RECURSIVE CumulativeFrom(_, _)
CumulativeFrom(totals, gws) ==
  IF gws = <<>> THEN <<>>
  ELSE LET t == AddFixtures(totals, Head(gws).fixtures)
       IN <<t>> \o CumulativeFrom(t, Tail(gws))

computeCumulative(d) ==
  CumulativeFrom([t \in Range(d.teams) |-> IntNum(0)], d.gameweeks)

\* v1: one fixture of calculateCumulativePoints; st is <<pointsByTeam, weekPoints>>
V1Fixture(st, f) ==
  LET homePoints == getPointsForResult(f.home_score, f.away_score)
      awayPoints == getPointsForResult(f.away_score, f.home_score)
      p0 == st[1]
      p1 == (f.home :> NumAdd(OrZero(p0, f.home), IntNum(homePoints))) @@ p0
      p2 == (f.away :> NumAdd(OrZero(p1, f.away), IntNum(awayPoints))) @@ p1
      w1 == (f.home :> p2[f.home]) @@ st[2]
      w2 == (f.away :> p2[f.away]) @@ w1
  IN <<p2, w2>>

RECURSIVE V1Fixtures(_, _)
V1Fixtures(st, fs) ==
  IF fs = <<>> THEN st ELSE V1Fixtures(V1Fixture(st, Head(fs)), Tail(fs))

RECURSIVE V1FromOpeningCopy(_, _)
V1FromOpeningCopy(pointsByTeam, gws) ==
  IF gws = <<>> THEN <<>>
  ELSE LET st == V1Fixtures(<<pointsByTeam, pointsByTeam>>, Head(gws).fixtures)
       IN <<pointsByTeam>> \o V1FromOpeningCopy(st[1], Tail(gws))

RECURSIVE V1From(_, _)
V1From(pointsByTeam, gws) ==
  IF gws = <<>> THEN <<>>
  ELSE LET st == V1Fixtures(<<pointsByTeam, pointsByTeam>>, Head(gws).fixtures)
       IN <<st[2]>> \o V1From(st[1], Tail(gws))

calculateCumulativePoints(d) ==
  V1From([t \in Range(d.teams) |-> IntNum(0)], d.gameweeks)

(***************************************************************************)
(* Array.prototype.sort with a comparator.  cmp[i][j] is the sign of       *)
(* comparefn(s[i], s[j]), a NaN result counting as 0.  The sort is stable; *)
(* when comparefn is not a consistent comparator the order is              *)
(* implementation-defined, and every permutation is an outcome.            *)
(***************************************************************************)
Consistent(cmp, n) ==
  \A i, j, k \in 1..n :
    /\ (cmp[i][j] = 0 /\ cmp[j][k] = 0) => cmp[i][k] = 0
    /\ (cmp[i][j] < 0 /\ cmp[j][k] < 0) => cmp[i][k] < 0
    /\ (cmp[i][j] > 0 /\ cmp[j][k] > 0) => cmp[i][k] > 0

\* the position in the sorted array of element i under a stable sort
StableRank(cmp, n, i) ==
  1 + Cardinality({ j \in 1..n : cmp[j][i] < 0 \/ (cmp[j][i] = 0 /\ j < i) })

\* the possible results of the sort, each as rank[i], the position of s[i]
SortRanks(cmp, n) ==
  IF Consistent(cmp, n) THEN { [i \in 1..n |-> StableRank(cmp, n, i)] }
  ELSE Permutations(1..n)

\* s reordered by rank
Reorder(s, rank) ==
  [k \in 1..Len(s) |-> s[CHOOSE i \in 1..Len(s) : rank[i] = k]]

(***************************************************************************)
(* computePositions                                                        *)
(***************************************************************************)
\* snap[t], undefined for a missing key: in b.p - a.p undefined gives NaN
Lookup(snap, t) == IF t \in DOMAIN snap THEN snap[t] ELSE NaN

\* (a, b) => b.p - a.p, as a sign; NaN counts as 0
CmpPoints(a, b) ==
  LET diff == NumSub(b, a) IN IF IsNaN(diff) THEN 0 ELSE NumSign(diff)

\* the results of the sort in computePositions for one snapshot
SnapRanks(teams, snap) ==
  SortRanks([i \in 1..Len(teams) |-> [j \in 1..Len(teams) |->
               CmpPoints(Lookup(snap, teams[i]), Lookup(snap, teams[j]))]],
            Len(teams))

PosOfZeroBased(teams, rank) == [t \in Range(teams) |->
  LET i == CHOOSE k \in 1..Len(teams) : teams[k] = t IN rank[i] - 1]

\* pos of one snapshot for one result of the sort: sorted.forEach((r, i) =>
\* pos[r.t] = i + 1)
PosOf(teams, rank) == [t \in Range(teams) |->
  LET i == CHOOSE k \in 1..Len(teams) : teams[k] = t IN rank[i]]

\* the values computePositions(cumCache) can return
RECURSIVE computePositions(_, _)
computePositions(teams, cumCache) ==
  IF cumCache = <<>> THEN { <<>> }
  ELSE { <<PosOf(teams, r)>> \o rest :
           r \in SnapRanks(teams, Head(cumCache)),
           rest \in computePositions(teams, Tail(cumCache)) }

(***************************************************************************)
(* Standings (league table data)                                           *)
(***************************************************************************)
Letter(p) == IF p = 3 THEN "W" ELSE IF p = 1 THEN "D" ELSE "L"

PlayedWinsOnly(r, gf, ga, p) ==
  [r EXCEPT !.p = @ + 1, !.gf = @ + gf, !.ga = @ + ga,
            !.pts = IF p = 3 THEN @ + 3 ELSE @,
            !.results = Append(@, IF p = 3 THEN "W" ELSE "L"),
            !.w = IF p = 3 THEN @ + 1 ELSE @,
            !.l = IF p # 3 THEN @ + 1 ELSE @]

\* the update of one side's record in getStandings
Played(r, gf, ga, p) ==
  [r EXCEPT !.p = @ + 1, !.gf = @ + gf, !.ga = @ + ga, !.pts = @ + p,
            !.results = Append(@, Letter(p)),
            !.w = IF p = 3 THEN @ + 1 ELSE @,
            !.d = IF p # 3 /\ p = 1 THEN @ + 1 ELSE @,
            !.l = IF p # 3 /\ p # 1 THEN @ + 1 ELSE @]

\* the forEach of getStandings over the fixtures fs; m[f.home] or m[f.away]
\* undefined makes h.p++ or a.p++ throw a TypeError, which ends the call
RECURSIVE Tally(_, _)
Tally(m, fs) ==
  IF fs = <<>> THEN [thrown |-> FALSE, m |-> m]
  ELSE LET f == Head(fs)
           hp == pts(f.home_score, f.away_score)
           ap == pts(f.away_score, f.home_score)
       IN IF f.home \notin DOMAIN m THEN [thrown |-> TRUE, m |-> m]
          ELSE LET m1 == [m EXCEPT ![f.home] =
                            Played(@, f.home_score, f.away_score, hp)]
               IN IF f.away \notin DOMAIN m1 THEN [thrown |-> TRUE, m |-> m1]
                  ELSE Tally([m1 EXCEPT ![f.away] =
                                Played(@, f.away_score, f.home_score, ap)],
                             Tail(fs))

CmpRowsNoGoalsFor(a, b) ==
  IF b.pts - a.pts # 0 THEN Sgn(b.pts - a.pts) ELSE Sgn(b.gd - a.gd)

\* (a, b) => b.pts - a.pts || b.gd - a.gd || b.gf - a.gf, as a sign
CmpRows(a, b) ==
  IF b.pts - a.pts # 0 THEN Sgn(b.pts - a.pts)
  ELSE IF b.gd - a.gd # 0 THEN Sgn(b.gd - a.gd)
  ELSE Sgn(b.gf - a.gf)

RowsGoalsAgainstFirst(teams, m) ==
  [i \in 1..Len(teams) |->
     [team |-> teams[i], p |-> m[teams[i]].p, w |-> m[teams[i]].w,
      d |-> m[teams[i]].d, l |-> m[teams[i]].l, gf |-> m[teams[i]].gf,
      ga |-> m[teams[i]].ga, pts |-> m[teams[i]].pts,
      results |-> m[teams[i]].results,
      gd |-> m[teams[i]].ga - m[teams[i]].gf]]

\* Object.values(m): the records in insertion order, the order of data.teams
\* (team names are no array indices), each with gd added
Rows(teams, m) ==
  [i \in 1..Len(teams) |->
     [team |-> teams[i], p |-> m[teams[i]].p, w |-> m[teams[i]].w,
      d |-> m[teams[i]].d, l |-> m[teams[i]].l, gf |-> m[teams[i]].gf,
      ga |-> m[teams[i]].ga, pts |-> m[teams[i]].pts,
      results |-> m[teams[i]].results,
      gd |-> m[teams[i]].gf - m[teams[i]].ga]]

\* the sort of getStandings; the comparator is consistent, so the stable
\* sort has one result
SortRows(rows) ==
  LET n == Len(rows)
      cmp == [i \in 1..n |-> [j \in 1..n |-> CmpRows(rows[i], rows[j])]]
  IN Reorder(rows, [i \in 1..n |-> StableRank(cmp, n, i)])

\* getStandings(): [thrown |-> TRUE] for a TypeError, else the sorted table
getStandings(d) ==
  LET m0 == [t \in Range(d.teams) |->
               [team |-> t, p |-> 0, w |-> 0, d |-> 0, l |-> 0, gf |-> 0,
                ga |-> 0, pts |-> 0, results |-> <<>>]]
      r == Tally(m0, Flatten(d.gameweeks))
  IN IF r.thrown THEN [thrown |-> TRUE, rows |-> <<>>]
     ELSE [thrown |-> FALSE, rows |-> SortRows(Rows(d.teams, r.m))]

(***************************************************************************)
(* Poisson prediction model.                                               *)
(*                                                                         *)
(* Math.exp and Math.log are real-valued: poissonPMF(lambda, k) is         *)
(* e^-lambda lambda^k / k!, computed here in fixed point as the k-th term  *)
(* of the series of e^lambda over the sum of the series, to PBits binary   *)
(* digits.  Probabilities are numbers with denominator 2^PBits.            *)
(***************************************************************************)
\* Math.exp(logP) is kept to this many binary digits
PBits == 20

POne == 2 ^ PBits

\* the weight given to the largest term of the series of e^lambda
Peak == 50000000

\* floor(w * a / b) without an intermediate product w * a
MulDivFloor(w, a, b) == (w \div b) * a + ((w % b) * a) \div b

\* the term lambda^j / j! of the series for lambda = n/d, as a weight: the
\* term at the mode m = floor(lambda) weighs Peak
RECURSIVE Weight(_, _, _, _)
Weight(j, m, n, d) ==
  IF j = m THEN Peak
  ELSE IF j < m THEN MulDivFloor(Weight(j + 1, m, n, d), (j + 1) * d, n)
  ELSE MulDivFloor(Weight(j - 1, m, n, d), n, d * j)

\* w_j + w_(j+1) + ... from w = w_j, until the terms vanish
RECURSIVE SumUp(_, _, _, _)
SumUp(w, j, n, d) ==
  IF w = 0 THEN 0 ELSE w + SumUp(MulDivFloor(w, n, d * (j + 1)), j + 1, n, d)

\* w_j + w_(j-1) + ... + w_0 from w = w_j
RECURSIVE SumDown(_, _, _, _)
SumDown(w, j, n, d) ==
  IF j = 0 THEN w ELSE w + SumDown(MulDivFloor(w, j * d, n), j - 1, n, d)

\* the first `bits` binary digits of r / e, for 0 <= r < e
RECURSIVE Frac(_, _, _)
Frac(r, e, bits) ==
  IF bits = 0 THEN 0
  ELSE LET q == IF 2 * r >= e THEN 1 ELSE 0
       IN q * 2 ^ (bits - 1) + Frac(2 * r - q * e, e, bits - 1)

\* the sum of the series of e^lambda for lambda = n/d > 0, in weights
SeriesSum(n, d) ==
  SumDown(Peak, n \div d, n, d) + SumUp(Peak, n \div d, n, d) - Peak

\* e^-lambda lambda^k / k! for a finite lambda = n/d > 0 and e = SeriesSum(n, d)
PoissonTerm(n, d, k, e) ==
  LET w == Weight(k, n \div d, n, d)
  IN IF w >= e THEN IntNum(1) ELSE Num(Frac(w, e, PBits), POne)

\* poissonPMF(lambda, k), lambda >= 0 or NaN.  Math.log(0) is -Infinity:
\* with lambda = 0, logP is 0 * -Infinity = NaN for k = 0 and -Infinity for
\* k > 0; with lambda = Infinity it is -Infinity + NaN or -Infinity + Infinity
poissonPMF(lambda, k) ==
  IF IsNaN(lambda) \/ ~IsFinite(lambda) THEN NaN
  ELSE IF lambda[1] = 0 THEN (IF k = 0 THEN NaN ELSE IntNum(0))
  ELSE CHOOSE p \in { PoissonTerm(lambda[1], lambda[2], k, e) :
                       e \in { SeriesSum(lambda[1], lambda[2]) } } : TRUE

\* a probability in units of 2^-PBits, -1 for NaN
Units(x) == IF IsNaN(x) THEN -1 ELSE x[1] * (POne \div x[2])

FromUnits(u) == IF u < 0 THEN NaN ELSE Num(u, POne)

\* x + y on units
UAdd(x, y) == IF x < 0 \/ y < 0 THEN -1 ELSE x + y

\* pH * pA on units, rounded down to PBits digits
UMul(x, y) ==
  IF x < 0 \/ y < 0 THEN -1
  ELSE LET h == 2 ^ (PBits \div 2)
       IN (x \div h) * (y \div h)
          + ((x \div h) * (y % h) + (x % h) * (y \div h)) \div h

\* the largest score of the grid: const MAX = 10
MAX == 10

\* the sum of q[h][a] over the cells a = a0..MAX of row h that are in class
\* c: 1 for h > a, 0 for h = a, -1 for h < a
RECURSIVE RowSum(_, _, _, _)
RowSum(q, h, a, c) ==
  IF a > MAX THEN 0
  ELSE UAdd(IF Sgn(h - a) = c THEN q[h][a] ELSE 0, RowSum(q, h, a + 1, c))

\* the sum over the rows h0..MAX
RECURSIVE ClassSum(_, _, _)
ClassSum(q, h, c) ==
  IF h > MAX THEN 0 ELSE UAdd(RowSum(q, h, 0, c), ClassSum(q, h + 1, c))

\* the cell that `if (p > bestProb)` leaves in bestH, bestA when the loops
\* end: the first cell, h ascending then a ascending, of the largest p > 0,
\* and (0, 0) with bestProb 0 when no p is above 0 (NaN > x is false)
Best(q) ==
  LET cells == (0..MAX) \X (0..MAX)
      top == { c \in cells :
                 /\ q[c[1]][c[2]] > 0
                 /\ \A e \in cells : q[e[1]][e[2]] <= q[c[1]][c[2]] }
  IN IF top = {} THEN [bestProb |-> 0, bestH |-> 0, bestA |-> 0]
     ELSE LET b == CHOOSE c \in top :
                     \A e \in top : c[1] < e[1] \/ (c[1] = e[1] /\ c[2] <= e[2])
          IN [bestProb |-> q[b[1]][b[2]], bestH |-> b[1], bestA |-> b[2]]

\* the loop variables after the loops over the cell probabilities q
GridOf(q) ==
  [pHome |-> ClassSum(q, 0, 1), pDraw |-> ClassSum(q, 0, 0),
   pAway |-> ClassSum(q, 0, -1),
   bestProb |-> Best(q).bestProb, bestH |-> Best(q).bestH,
   bestA |-> Best(q).bestA]

\* p = pH * pA for every cell, pH and pA in units
CellProbs(pH, pA) == [h \in 0..MAX |-> [a \in 0..MAX |-> UMul(pH[h], pA[a])]]

\* poissonPMF(lambda, k) for k = 0..MAX, in units
PoissonRow(lambda) == [k \in 0..MAX |-> Units(poissonPMF(lambda, k))]

\* the loop variables after the grid for the expected goals lambdaH, lambdaA
ScoreGrid(lambdaH, lambdaA) ==
  CHOOSE g \in { GridOf(q) :
                 q \in { CellProbs(pH, pA) : pH \in { PoissonRow(lambdaH) },
                                             pA \in { PoissonRow(lambdaA) } } } :
    TRUE

\* Math.round(x), NaN for NaN
Round(x) ==
  IF IsNaN(x) \/ ~IsFinite(x) THEN x
  ELSE IntNum((2 * x[1] + x[2]) \div (2 * x[2]))

\* x.toFixed(2) as the number the string denotes ("NaN" for NaN)
ToFixed2(x) ==
  IF IsNaN(x) \/ ~IsFinite(x) THEN x
  ELSE Num((200 * x[1] + x[2]) \div (2 * x[2]), 100)

\* standings.reduce((s, r) => s + r.p, 0) and the like
RECURSIVE SumField(_, _)
SumField(rows, fld) ==
  IF rows = <<>> THEN 0 ELSE Head(rows)[fld] + SumField(Tail(rows), fld)

AvgGoalsPerGame(rows) ==
  LET totalGames == NumDiv(IntNum(SumField(rows, "p")), IntNum(2))
      totalGoals == IntNum(SumField(rows, "gf"))
  IN NumDiv(totalGoals, totalGames)

\* average goals per team per game
AvgGoals(rows) ==
  LET totalGames == NumDiv(IntNum(SumField(rows, "p")), IntNum(2))
      totalGoals == IntNum(SumField(rows, "gf"))
  IN NumDiv(totalGoals, NumMul(totalGames, IntNum(2)))

HomeAdvNoDefault(d) ==
  LET fs == Flatten(d.gameweeks)
      homeGoals == SumField(fs, "home_score")
      awayGoals == SumField(fs, "away_score")
      matchCount == Len(fs)
  IN NumDiv(NumDiv(IntNum(homeGoals), IntNum(matchCount)),
            NumDiv(IntNum(homeGoals + awayGoals), IntNum(2 * matchCount)))

\* Home advantage factor
HomeAdv(d) ==
  LET fs == Flatten(d.gameweeks)
      homeGoals == SumField(fs, "home_score")
      awayGoals == SumField(fs, "away_score")
      matchCount == Len(fs)
  IN IF matchCount > 0
     THEN NumDiv(NumDiv(IntNum(homeGoals), IntNum(matchCount)),
                 NumDiv(IntNum(homeGoals + awayGoals), IntNum(2 * matchCount)))
     ELSE Num(11, 10)

CoefficientNoDefault(goals, played, avgGoals) ==
  NumDiv(NumDiv(IntNum(goals), IntNum(played)), avgGoals)

\* attack or defence of a team with `goals` in `played` games
Coefficient(goals, played, avgGoals) ==
  IF played > 0
  THEN NumDiv(NumDiv(IntNum(goals), IntNum(played)), avgGoals)
  ELSE IntNum(1)

\* Per-team strength
Strength(rows, avgGoals) ==
  [t \in { rows[i].team : i \in 1..Len(rows) } |->
     LET r == rows[CHOOSE i \in 1..Len(rows) : rows[i].team = t]
     IN [attack |-> Coefficient(r.gf, r.p, avgGoals),
         defence |-> Coefficient(r.ga, r.p, avgGoals)]]

\* strength[t] || { attack: 1, defence: 1 }
StrengthOf(strength, t) ==
  IF t \in DOMAIN strength THEN strength[t]
  ELSE [attack |-> IntNum(1), defence |-> IntNum(1)]

LambdaH(sH, sA, avgGoals, homeAdv) ==
  NumMul(NumMul(NumMul(sH.attack, sA.defence), avgGoals), homeAdv)

LambdaA(sH, sA, avgGoals) ==
  NumMul(NumMul(sA.attack, sH.defence), avgGoals)

\* the prediction pushed for one future fixture, from the loop variables g
\* after the grid
Prediction(f, lambdaH, lambdaA, g) ==
  LET pHome == FromUnits(g.pHome)
      pDraw == FromUnits(g.pDraw)
      pAway == FromUnits(g.pAway)
  IN [home |-> f.home, away |-> f.away,
      predHome |-> g.bestH, predAway |-> g.bestA,
      pHome |-> Round(NumMul(pHome, IntNum(100))),
      pDraw |-> Round(NumMul(pDraw, IntNum(100))),
      pAway |-> Round(NumMul(pAway, IntNum(100))),
      expPtsHome |-> NumAdd(NumMul(pHome, IntNum(3)), NumMul(pDraw, IntNum(1))),
      expPtsAway |-> NumAdd(NumMul(pAway, IntNum(3)), NumMul(pDraw, IntNum(1))),
      lambdaH |-> ToFixed2(lambdaH), lambdaA |-> ToFixed2(lambdaA)]

\* the body of fgw.fixtures.forEach up to gwPredictions.push
Forecast(f, strength, avgGoals, homeAdv) ==
  LET sH == StrengthOf(strength, f.home)
      sA == StrengthOf(strength, f.away)
  IN CHOOSE q \in
       UNION { { Prediction(f, l[1], l[2], g) : g \in { ScoreGrid(l[1], l[2]) } } :
               l \in { <<LambdaH(sH, sA, avgGoals, homeAdv),
                         LambdaA(sH, sA, avgGoals)>> } } : TRUE

\* snapBefore after the fixtures with predictions ps:
\* snapBefore[t] = (snapBefore[t] || 0) + expPts
RECURSIVE Project(_, _)
Project(snapBefore, ps) ==
  IF ps = <<>> THEN snapBefore
  ELSE LET q == Head(ps)
           s1 == (q.home :> NumAdd(OrZero(snapBefore, q.home), q.expPtsHome))
                 @@ snapBefore
           s2 == (q.away :> NumAdd(OrZero(s1, q.away), q.expPtsAway)) @@ s1
       IN Project(s2, Tail(ps))

\* the results of one pass of data.future_gameweeks.forEach: the entry pushed
\* to allPredicted and the snapshot pushed to projectedCumulative
FutureWeek(last, fgw, gwPredictions) ==
  <<[week |-> fgw.week, fixtures |-> gwPredictions],
    Project(last, gwPredictions)>>

\* the forEach over data.future_gameweeks from the snapshot `last`: the pair
\* <<allPredicted, projectedCumulative>>
RECURSIVE Chain(_, _, _, _, _)
Chain(last, fgws, strength, avgGoals, homeAdv) ==
  IF fgws = <<>> THEN <<<<>>, <<>>>>
  ELSE CHOOSE c \in
    UNION { { << <<w[1]>> \o rest[1], <<w[2]>> \o rest[2] >> :
                rest \in { Chain(w[2], Tail(fgws), strength, avgGoals, homeAdv) } } :
            w \in { FutureWeek(last, Head(fgws), ps) :
                    ps \in { [i \in 1..Len(Head(fgws).fixtures) |->
                               Forecast(Head(fgws).fixtures[i], strength,
                                        avgGoals, homeAdv)] } } } : TRUE

\* predictions = null
Null == [null |-> TRUE]

\* cumulativeCache[cumulativeCache.length - 1] spread into a new object:
\* undefined, for an empty cache, spreads to {}
LastActual(cumCache) ==
  IF cumCache = <<>> THEN [t \in {} |-> NaN] ELSE cumCache[Len(cumCache)]

\* the values buildPredictions() returns from the table `rows` of getStandings
Predictions(d, cumCache, rows) ==
  UNION { { [gameweeks |-> c[1], projectedCumulative |-> c[2],
             projectedPositions |-> pp] :
              pp \in computePositions(d.teams, c[2]) } :
          c \in { Chain(LastActual(cumCache), d.future_gameweeks,
                        Strength(rows, AvgGoals(rows)), AvgGoals(rows),
                        HomeAdv(d)) } }

\* the exception of a call
Thrown == [thrown |-> TRUE]

buildPredictionsNoGuard(d, cumCache) ==
  IF getStandings(d).thrown THEN { Thrown }
  ELSE Predictions(d, cumCache, getStandings(d).rows)

\* the values buildPredictions() can return with the cache cumCache, {Thrown}
\* when its getStandings() throws
buildPredictions(d, cumCache) ==
  IF d.future_gameweeks = <<>> THEN { Null }
  ELSE IF getStandings(d).thrown THEN { Thrown }
  ELSE Predictions(d, cumCache, getStandings(d).rows)

\* the series cumCache after computePositions(cumCache): map builds new
\* { t, p } objects and sorts the new array; no snapshot is written
SeriesAfterPositions(cumCache) == cumCache

CacheAliased(cumCache, preds) ==
  IF preds = Null \/ cumCache = <<>> \/ preds.projectedCumulative = <<>>
  THEN cumCache
  ELSE [cumCache EXCEPT ![Len(cumCache)] = preds.projectedCumulative[1]]

\* cumulativeCache after buildPredictions() returned preds: lastActual is a
\* spread copy of the last snapshot and snapBefore a spread copy of that, so the
\* writes to snapBefore reach no snapshot of the cache
CacheAfterPredictions(cumCache, preds) == cumCache

(***************************************************************************)
(* The handlers.                                                           *)
(***************************************************************************)
Init ==
  /\ data \in DataSets \cup Seasons
  /\ pc = "loaded"
  /\ error = ""
  /\ standings = <<>>
  /\ cumulativeCache = <<>>
  /\ positionCache = <<>>
  /\ predictions = Null
  /\ selectedTeam = ""
  /\ chartMode = "points"
  /\ selectedGameweek = 0
  /\ showProjections = TRUE
  /\ v1pc = "loaded"
  /\ cumulativePoints = <<>>
  /\ predictionsDisplay = ""
  /\ upcomingDisplay = ""
  /\ projectedTraces = 0

\* renderChart() throws at histCache[histCache.length - 1][team] when the
\* projected traces are drawn over an empty historical cache
RenderChartThrows(d, cumCache, preds, showProj) ==
  /\ showProj
  /\ preds # Null
  /\ Len(preds.projectedCumulative) > 0
  /\ cumCache = <<>>
  /\ d.teams # <<>>

\* the projected traces renderChart() adds, one per team
ProjectedTraces(d, preds, showProj) ==
  IF showProj /\ preds # Null /\ Len(preds.projectedCumulative) > 0
  THEN Len(d.teams) ELSE 0

\* style.display of #predictions-section after renderPredictions()
renderPredictions(preds, display) ==
  IF preds = Null \/ Len(preds.gameweeks) = 0 THEN "none" ELSE display

\* style.display of #upcoming-section after renderUpcoming()
renderUpcoming(d, display) ==
  IF d.future_gameweeks = <<>> THEN "none" ELSE display

\* the week showGameweekTable(weekNum) leaves in selectedGameweek
ShowGameweekTable(d, weekNum, selected) ==
  IF weekNum = 0 THEN selected
  ELSE IF \E i \in 1..Len(d.gameweeks) : d.gameweeks[i].week = weekNum
       THEN weekNum
       ELSE selected

\* v2: the DOMContentLoaded handler after the data is fetched, up to the throw
\* that its catch reports or to wireEvents
Boot ==
  /\ pc = "loaded"
  /\ IF getStandings(data).thrown
     THEN \* renderTeamPills: getStandings() throws
          /\ pc' = "failed"
          /\ error' = "renderTeamPills"
          /\ UNCHANGED <<standings, cumulativeCache, positionCache,
                         predictions, selectedGameweek, predictionsDisplay,
                         upcomingDisplay, projectedTraces>>
     ELSE \* computeAll
          /\ predictions' \in buildPredictions(data, computeCumulative(data))
          /\ cumulativeCache' =
               CacheAfterPredictions(
                 SeriesAfterPositions(computeCumulative(data)), predictions')
          /\ positionCache' \in
               computePositions(data.teams, computeCumulative(data))
          /\ IF RenderChartThrows(data, cumulativeCache', predictions',
                                  showProjections)
             THEN /\ pc' = "failed"
                  /\ error' = "renderChart"
                  /\ standings' = getStandings(data).rows
                  /\ UNCHANGED <<selectedGameweek, predictionsDisplay,
                                 upcomingDisplay, projectedTraces>>
             ELSE \* renderLeagueTable, showGameweekTable
                  /\ projectedTraces' =
                       ProjectedTraces(data, predictions', showProjections)
                  /\ standings' = getStandings(data).rows
                  /\ IF data.gameweeks = <<>>
                     THEN /\ pc' = "failed"
                          /\ error' = "showGameweekTable"
                          /\ UNCHANGED <<selectedGameweek, predictionsDisplay,
                                         upcomingDisplay>>
                     ELSE \* renderPredictions, renderUpcoming, wireEvents
                          /\ pc' = "ready"
                          /\ error' = ""
                          /\ predictionsDisplay' =
                               renderPredictions(predictions',
                                                 predictionsDisplay)
                          /\ upcomingDisplay' =
                               renderUpcoming(data, upcomingDisplay)
                          /\ selectedGameweek' =
                               ShowGameweekTable(data,
                                 data.gameweeks[Len(data.gameweeks)].week,
                                 selectedGameweek)
  /\ UNCHANGED <<data, selectedTeam, chartMode, showProjections, v1pc,
                 cumulativePoints>>

\* v1: init() after the data is fetched; renderChart calls
\* calculateCumulativePoints()
InitV1 ==
  /\ v1pc = "loaded"
  /\ v1pc' = "ready"
  /\ cumulativePoints' = calculateCumulativePoints(data)
  /\ UNCHANGED <<data, pc, error, standings, cumulativeCache, positionCache,
                 predictions, selectedTeam, chartMode, selectedGameweek,
                 showProjections, predictionsDisplay, upcomingDisplay,
                 projectedTraces>>

Next == Boot \/ InitV1

Spec == Init /\ [][Next]_vars

(***************************************************************************)
(* The page in use: the listeners of renderTeamPills, renderLeagueTable,   *)
(* renderChart and wireEvents.  Spec is the loading of the page, SpecUI    *)
(* the loading followed by any sequence of these events.                   *)
(***************************************************************************)
\* renderChart: histCache
HistCache == IF chartMode = "position" THEN positionCache ELSE cumulativeCache

\* renderTeamPills has run: a pill per team listens for a click
PillsRendered == pc = "ready" \/ error \in {"renderChart", "showGameweekTable"}

\* renderLeagueTable has run: a row per team listens for a click
RowsRendered == pc = "ready" \/ error = "showGameweekTable"

\* the chart is drawn and the catch has not replaced it; wireEvents has run
ChartDrawn == pc = "ready"

toggleSelectionAlwaysSelects(team) ==
  /\ selectedTeam' = team
  /\ projectedTraces' = ProjectedTraces(data, predictions, showProjections)
  /\ selectedGameweek' = selectedGameweek
  /\ predictionsDisplay' = renderPredictions(predictions, predictionsDisplay)
  /\ UNCHANGED <<data, pc, error, standings, cumulativeCache, positionCache,
                 predictions, chartMode, showProjections, v1pc,
                 cumulativePoints, upcomingDisplay>>

\* toggleSelection(team); a throw of its renderChart() ends the listener with
\* selectedTeam assigned
toggleSelection(team) ==
  /\ selectedTeam' = IF selectedTeam = team THEN "" ELSE team
  /\ IF RenderChartThrows(data, HistCache, predictions, showProjections)
     THEN UNCHANGED <<projectedTraces, selectedGameweek, predictionsDisplay>>
     ELSE /\ projectedTraces' =
               ProjectedTraces(data, predictions, showProjections)
          /\ selectedGameweek' =
               IF selectedGameweek # 0
               THEN ShowGameweekTable(data, selectedGameweek, selectedGameweek)
               ELSE selectedGameweek
          /\ predictionsDisplay' =
               renderPredictions(predictions, predictionsDisplay)
  /\ UNCHANGED <<data, pc, error, standings, cumulativeCache, positionCache,
                 predictions, chartMode, showProjections, v1pc,
                 cumulativePoints, upcomingDisplay>>

\* a click on the pill of a team
PillClick ==
  /\ PillsRendered
  /\ \E team \in Range(data.teams) : toggleSelection(team)

\* a click on the row of a team in the league table
RowClick ==
  /\ RowsRendered
  /\ \E i \in 1..Len(standings) : toggleSelection(standings[i].team)

\* plotly_click on a point of a trace: the trace is named team or
\* team + ' (proj)', and no name of Names holds ' (proj)', so replace() gives
\* the team
ChartClick ==
  /\ ChartDrawn
  /\ data.gameweeks # <<>>
  /\ \E team \in Range(data.teams) : toggleSelection(team)

\* a click on #btn-clear-filter
ClearFilter ==
  /\ ChartDrawn
  /\ selectedTeam' = ""
  /\ IF RenderChartThrows(data, HistCache, predictions, showProjections)
     THEN UNCHANGED <<projectedTraces, selectedGameweek, predictionsDisplay>>
     ELSE /\ projectedTraces' =
               ProjectedTraces(data, predictions, showProjections)
          /\ selectedGameweek' =
               IF selectedGameweek # 0
               THEN ShowGameweekTable(data, selectedGameweek, selectedGameweek)
               ELSE selectedGameweek
          /\ predictionsDisplay' =
               renderPredictions(predictions, predictionsDisplay)
  /\ UNCHANGED <<data, pc, error, standings, cumulativeCache, positionCache,
                 predictions, chartMode, showProjections, v1pc,
                 cumulativePoints, upcomingDisplay>>

\* a click on a .toggle-btn, whose data-mode is mode
ChartModeToggle ==
  /\ ChartDrawn
  /\ \E mode \in {"points", "position"} :
       IF mode = chartMode
       THEN UNCHANGED <<chartMode, projectedTraces>>
       ELSE /\ chartMode' = mode
            /\ IF RenderChartThrows(data,
                    IF mode = "position" THEN positionCache
                                         ELSE cumulativeCache,
                    predictions, showProjections)
               THEN UNCHANGED projectedTraces
               ELSE projectedTraces' =
                      ProjectedTraces(data, predictions, showProjections)
  /\ UNCHANGED <<data, pc, error, standings, cumulativeCache, positionCache,
                 predictions, selectedTeam, selectedGameweek, showProjections,
                 v1pc, cumulativePoints, predictionsDisplay, upcomingDisplay>>

\* change of #show-projections to checked
ProjectionsToggle ==
  /\ ChartDrawn
  /\ \E checked \in BOOLEAN :
       /\ showProjections' = checked
       /\ IF RenderChartThrows(data, HistCache, predictions, checked)
          THEN UNCHANGED projectedTraces
          ELSE projectedTraces' = ProjectedTraces(data, predictions, checked)
  /\ UNCHANGED <<data, pc, error, standings, cumulativeCache, positionCache,
                 predictions, selectedTeam, chartMode, selectedGameweek,
                 v1pc, cumulativePoints, predictionsDisplay, upcomingDisplay>>

\* the points of the chart: point gwIdx of a historical trace carries
\* customdata { gwIdx }, the points of a projected trace carry none (-1)
ChartPoints ==
  IF data.teams = <<>> THEN {}
  ELSE (0..(Len(data.gameweeks) - 1))
       \cup (IF projectedTraces > 0 THEN {-1} ELSE {})

\* plotly_hover on a point: the opacities are restyled and the gameweek of a
\* historical point is shown
ChartHover ==
  /\ ChartDrawn
  /\ \E gwIdx \in ChartPoints :
       selectedGameweek' =
         IF gwIdx # -1 /\ gwIdx + 1 \in DOMAIN data.gameweeks
         THEN ShowGameweekTable(data, data.gameweeks[gwIdx + 1].week,
                                selectedGameweek)
         ELSE selectedGameweek
  /\ UNCHANGED <<data, pc, error, standings, cumulativeCache, positionCache,
                 predictions, selectedTeam, chartMode, showProjections, v1pc,
                 cumulativePoints, predictionsDisplay, upcomingDisplay,
                 projectedTraces>>

\* plotly_unhover: the opacities are restyled by selectedTeam
ChartUnhover ==
  /\ ChartDrawn
  /\ ChartPoints # {}
  /\ UNCHANGED vars

UIEvent ==
  \/ PillClick
  \/ RowClick
  \/ ChartClick
  \/ ClearFilter
  \/ ChartModeToggle
  \/ ProjectionsToggle
  \/ ChartHover
  \/ ChartUnhover

NextUI == Next \/ UIEvent

\* the files of the page in use: no listener reads the order of data.teams
\* but through the caches, so one order of the three teams stands for all
UIFiles == Seasons \cup { d \in DataSets : d.teams = <<"A", "B", "C">> }

InitUI == Init /\ data \in UIFiles

SpecUI == InitUI /\ [][NextUI]_vars

(***************************************************************************)
(* Properties.                                                             *)
(***************************************************************************)
\* computeAll has run in the v2 handler
Computed == pc = "ready" \/ error \in {"renderChart", "showGameweekTable"}

HistFixtures == Flatten(data.gameweeks)

\* the points rule of the specification
Rule(gf, ga, p) ==
  /\ (gf > ga => p = 3) /\ (gf = ga => p = 1) /\ (gf < ga => p = 0)

\* C1: for the scores of every historical fixture, pts and v1's
\* getPointsForResult give 3 to the side that scored more, 1 to both sides of
\* a draw and 0 to the side that scored less, so one side has 3 exactly when the
\* other has 0 and 1 exactly when the other has 1; a file of one fixture shows
\* these points in the only snapshot of v2 and of v1
C1_PointsRule ==
  /\ \A i \in 1..Len(HistFixtures) :
       LET f == HistFixtures[i]
           hp == pts(f.home_score, f.away_score)
           ap == pts(f.away_score, f.home_score)
       IN /\ Rule(f.home_score, f.away_score, hp)
          /\ Rule(f.away_score, f.home_score, ap)
          /\ (hp = 3 <=> ap = 0) /\ (hp = 1 <=> ap = 1)
          /\ Rule(f.home_score, f.away_score,
                  getPointsForResult(f.home_score, f.away_score))
          /\ Rule(f.away_score, f.home_score,
                  getPointsForResult(f.away_score, f.home_score))
  /\ (Len(HistFixtures) = 1 /\ WellFormed(data)) =>
       LET f == HistFixtures[1] IN
         /\ pc = "ready" =>
              \E p, q \in {0, 1, 3} :
                /\ cumulativeCache[Len(cumulativeCache)][f.home] = IntNum(p)
                /\ cumulativeCache[Len(cumulativeCache)][f.away] = IntNum(q)
                /\ Rule(f.home_score, f.away_score, p)
                /\ Rule(f.away_score, f.home_score, q)
         /\ v1pc = "ready" =>
              \E p, q \in {0, 1, 3} :
                /\ cumulativePoints[Len(cumulativePoints)][f.home] = IntNum(p)
                /\ cumulativePoints[Len(cumulativePoints)][f.away] = IntNum(q)
                /\ Rule(f.home_score, f.away_score, p)
                /\ Rule(f.away_score, f.home_score, q)

\* both dashboards have aggregated a single drawn fixture
C1_Witness ==
  /\ pc = "ready" /\ v1pc = "ready"
  /\ Len(HistFixtures) = 1
  /\ HistFixtures[1].home_score = HistFixtures[1].away_score
  /\ cumulativeCache[Len(cumulativeCache)][HistFixtures[1].home] = IntNum(1)

\* the sum of field fld of the records rows, for C2
RECURSIVE Total(_, _)
Total(rows, fld) ==
  IF rows = <<>> THEN 0 ELSE Head(rows)[fld] + Total(Tail(rows), fld)

\* the points the specification awards in the fixtures fs: 3 + 0 or 1 + 1
RECURSIVE Awarded(_)
Awarded(fs) ==
  IF fs = <<>> THEN 0
  ELSE (IF Head(fs).home_score = Head(fs).away_score THEN 2 ELSE 3)
       + Awarded(Tail(fs))

\* C2: conservation: once getStandings has returned for a well-formed file, the
\* points of its records sum to the points awarded over all fixtures
C2_Conservation ==
  (Computed /\ WellFormed(data)) =>
    /\ Len(standings) = Len(data.teams)
    /\ Total(standings, "pts") = Awarded(HistFixtures)

\* a table over a win and a draw
C2_Witness ==
  /\ Computed /\ WellFormed(data)
  /\ Len(HistFixtures) = 2
  /\ Total(standings, "pts") = 5

\* the fixtures of fs that team t plays
Plays(t, fs) == { i \in 1..Len(fs) : fs[i].home = t \/ fs[i].away = t }

\* the sums of k point awards, each 0, 1 or 3
RECURSIVE Awards(_)
Awards(k) ==
  IF k = 0 THEN {0} ELSE { a + b : a \in Awards(k - 1), b \in {0, 1, 3} }

\* series is monotone for the teams of d, and a team's gain in a gameweek is
\* a sum of one award of 0, 1 or 3 per fixture it plays there
Monotone(d, series) ==
  /\ Len(series) = Len(d.gameweeks)
  /\ \A t \in Range(d.teams) : \A i \in 1..Len(series) :
       LET before == IF i = 1 THEN IntNum(0) ELSE series[i - 1][t]
           gain == NumSub(series[i][t], before)
       IN /\ t \in DOMAIN series[i]
          /\ NumLE(before, series[i][t])
          /\ gain[2] = 1
          /\ gain[1] \in Awards(Cardinality(Plays(t, d.gameweeks[i].fixtures)))

\* C3: monotonicity: in the series of computeCumulative and of v1's
\* calculateCumulativePoints every team of teams never loses points from one
\* gameweek to the next, and gains 0, 1 or 3 per fixture played
C3_Monotone ==
  /\ Computed => Monotone(data, cumulativeCache)
  /\ v1pc = "ready" => Monotone(data, cumulativePoints)

\* two gameweeks, and a team that gains in each
C3_Witness ==
  /\ pc = "ready" /\ v1pc = "ready"
  /\ Len(cumulativeCache) = 2
  /\ \E t \in Range(data.teams) :
       /\ NumPos(cumulativeCache[1][t])
       /\ cumulativeCache[1][t] # cumulativeCache[2][t]
       /\ cumulativePoints[2][t] = cumulativeCache[2][t]

\* pos ranks the teams 1..teamCount: every team has a rank, no rank is shared
\* and none is skipped
ValidRanks(teams, pos) ==
  /\ DOMAIN pos = Range(teams)
  /\ { pos[t] : t \in Range(teams) } = 1..Len(teams)
  /\ \A t, u \in Range(teams) : pos[t] = pos[u] => t = u

\* C4: position validity: every snapshot of computePositions, historical and
\* projected, ranks the teams of teams with exactly the ranks 1..teamCount
C4_PositionValidity ==
  Computed =>
    /\ Len(positionCache) = Len(cumulativeCache)
    /\ \A i \in 1..Len(positionCache) :
         ValidRanks(data.teams, positionCache[i])
    /\ predictions # Null =>
         /\ Len(predictions.projectedPositions)
              = Len(predictions.projectedCumulative)
         /\ \A i \in 1..Len(predictions.projectedPositions) :
              ValidRanks(data.teams, predictions.projectedPositions[i])

\* a historical snapshot with two teams level on points and a projected one
C4_Witness ==
  /\ pc = "ready"
  /\ predictions # Null
  /\ \E t, u \in Range(data.teams) :
       /\ t # u
       /\ cumulativeCache[1][t] = cumulativeCache[1][u]
       /\ positionCache[1][t] + 1 = positionCache[1][u]
       /\ predictions.projectedPositions[1][t] # positionCache[1][t]

\* the team names in ascending lexicographic order, and a name's place there
Alphabet == <<"A", "B", "C">>
NameRank(t) == CHOOSE k \in 1..Len(Alphabet) : Alphabet[k] = t

\* the place of team t in the teams list
ListRank(teams, t) == CHOOSE k \in 1..Len(teams) : teams[k] = t

\* record a is ahead of record b on points, then goal difference, then goals
\* for; Level when the three are equal
Ahead(a, b) ==
  \/ a.pts > b.pts
  \/ a.pts = b.pts /\ a.gd > b.gd
  \/ a.pts = b.pts /\ a.gd = b.gd /\ a.gf > b.gf
Level(a, b) == a.pts = b.pts /\ a.gd = b.gd /\ a.gf = b.gf

\* C5 as stated: the standings are ordered by points, goal difference and
\* goals for, each descending, and teams level on all three by name ascending,
\* whatever the order of the teams list
C5_OrderedByName ==
  (Computed /\ WellFormed(data)) =>
    \A i \in 1..Len(standings) : \A j \in 1..Len(standings) :
      i < j =>
        \/ Ahead(standings[i], standings[j])
        \/ /\ Level(standings[i], standings[j])
           /\ NameRank(standings[i].team) < NameRank(standings[j].team)

\* C5: the standings are ordered by points, goal difference and goals for, each
\* descending, and teams level on all three stand in the order of the teams
\* list of the input
C5_OrderedByList ==
  (Computed /\ WellFormed(data)) =>
    /\ { standings[i].team : i \in 1..Len(standings) } = Range(data.teams)
    /\ \A i \in 1..Len(standings) : \A j \in 1..Len(standings) :
         i < j =>
           \/ Ahead(standings[i], standings[j])
           \/ /\ Level(standings[i], standings[j])
              /\ ListRank(data.teams, standings[i].team)
                   < ListRank(data.teams, standings[j].team)

\* a table with two teams level on points, goal difference and goals for that
\* stand in list order against the alphabet
C5_Witness ==
  /\ pc = "ready"
  /\ \E i \in 1..(Len(standings) - 1) :
       /\ Level(standings[i], standings[i + 1])
       /\ NameRank(standings[i].team) > NameRank(standings[i + 1].team)

\* C6 as stated: every historical position snapshot ranks the teams by the
\* chain of the standings, and the last one agrees with the order of
\* getStandings
C6_PositionsFollowStandings ==
  (pc = "ready" /\ WellFormed(data)) =>
    \A i \in 1..Len(standings) :
      positionCache[Len(positionCache)][standings[i].team] = i

\* the fixtures of one gameweek in the order perm
Shuffle(fs, perm) == [k \in 1..Len(fs) |-> fs[perm[k]]]

\* the input files that differ from d only in the order of the fixtures within
\* gameweek w
Shuffled(d, w) ==
  { [d EXCEPT !.gameweeks[w].fixtures = Shuffle(@, perm)] :
      perm \in Permutations(1..Len(d.gameweeks[w].fixtures)) }

\* the aggregate totals of the records rows, by team
Totals(rows) ==
  { [team |-> rows[i].team, p |-> rows[i].p, w |-> rows[i].w,
     d |-> rows[i].d, l |-> rows[i].l, gf |-> rows[i].gf, ga |-> rows[i].ga,
     pts |-> rows[i].pts] : i \in 1..Len(rows) }

\* C7: permutation invariance: reordering the fixtures within a gameweek
\* changes neither the cumulative snapshots of v2 and v1 nor any team's
\* totals of played, wins, draws, losses, goals for, goals against and points
C7_PermutationInvariance ==
  \A w \in 1..Len(data.gameweeks) : \A d2 \in Shuffled(data, w) :
    /\ (Computed /\ WellFormed(data)) =>
         /\ computeCumulative(d2) = cumulativeCache
         /\ ~getStandings(d2).thrown
         /\ Totals(getStandings(d2).rows) = Totals(standings)
    /\ (v1pc = "ready" /\ WellFormed(data)) =>
         calculateCumulativePoints(d2) = cumulativePoints

\* a gameweek of two different fixtures with a team in both
C7_Witness ==
  /\ pc = "ready" /\ v1pc = "ready"
  /\ \E w \in 1..Len(data.gameweeks) :
       LET fs == data.gameweeks[w].fixtures IN
         /\ Len(fs) = 2 /\ fs[1] # fs[2]
         /\ Plays(fs[1].home, fs) = {1, 2}
         /\ fs[1].home_score # fs[1].away_score

\* the goals scored in the fixtures fs
RECURSIVE Goals(_)
Goals(fs) ==
  IF fs = <<>> THEN 0
  ELSE Head(fs).home_score + Head(fs).away_score + Goals(Tail(fs))

\* the future fixtures of d
FutureFixturesOf(d) == Flatten(d.future_gameweeks)

\* every probability, expected-points value and rate of the forecasts preds, and
\* every projected total, is a finite number
AllFinite(preds) ==
  /\ \A i \in 1..Len(preds.gameweeks) :
       \A j \in 1..Len(preds.gameweeks[i].fixtures) :
         LET q == preds.gameweeks[i].fixtures[j] IN
           /\ IsFinite(q.pHome) /\ IsFinite(q.pDraw) /\ IsFinite(q.pAway)
           /\ IsFinite(q.expPtsHome) /\ IsFinite(q.expPtsAway)
           /\ IsFinite(q.lambdaH) /\ IsFinite(q.lambdaA)
  /\ \A i \in 1..Len(preds.projectedCumulative) :
       \A t \in DOMAIN preds.projectedCumulative[i] :
         IsFinite(preds.projectedCumulative[i][t])

\* C8 as stated: with future gameweeks and a history of no matches or no
\* goals, buildPredictions computes no forecast and the failure is signalled,
\* and it returns no prediction holding NaN or Infinity
C8_DegenerateHistoryRefused ==
  (Computed /\ WellFormed(data) /\ data.future_gameweeks # <<>>
     /\ Goals(HistFixtures) = 0) =>
    /\ buildPredictions(data, cumulativeCache) = { Thrown }
    /\ predictions = Null
    /\ \A r \in buildPredictions(data, cumulativeCache) :
         r \notin { Null, Thrown } => AllFinite(r)

\* C9 as stated: with at least one goal in a well-formed history every team's
\* attack and defence coefficient is strictly positive, so both scoring rates
\* of every forecast fixture are strictly positive
C9_PositiveStrengths ==
  (Computed /\ WellFormed(data) /\ data.future_gameweeks # <<>>
     /\ Goals(HistFixtures) >= 1) =>
    LET avgGoals == AvgGoals(standings)
        strength == Strength(standings, avgGoals)
    IN /\ \A t \in Range(data.teams) :
            NumPos(strength[t].attack) /\ NumPos(strength[t].defence)
       /\ \A i \in 1..Len(FutureFixturesOf(data)) :
            LET f == FutureFixturesOf(data)[i]
                sH == StrengthOf(strength, f.home)
                sA == StrengthOf(strength, f.away)
            IN /\ NumPos(LambdaH(sH, sA, avgGoals, HomeAdv(data)))
               /\ NumPos(LambdaA(sH, sA, avgGoals))

\* every value of the series is a finite number under a team of d
OnlyTeams(d, series) ==
  \A i \in 1..Len(series) :
    /\ DOMAIN series[i] \subseteq Range(d.teams)
    /\ \A t \in DOMAIN series[i] : IsFinite(series[i][t])

\* C10 as stated: with a historical fixture naming a team outside teams the
\* aggregation fails with an error: neither dashboard completes its start-up,
\* no aggregate is kept, and computeCumulative and calculateCumulativePoints
\* return no NaN and no value for a team outside teams
C10_UnknownTeamFails ==
  (~WellFormed(data) /\ Range(data.teams) # {}) =>
    /\ pc # "ready" /\ v1pc # "ready"
    /\ cumulativeCache = <<>> /\ cumulativePoints = <<>> /\ standings = <<>>
    /\ OnlyTeams(data, computeCumulative(data))
    /\ OnlyTeams(data, calculateCumulativePoints(data))

\* C11: with no future gameweeks buildPredictions returns null, which is no
\* error: renderChart does not throw and draws no projected trace, and a
\* start-up that reaches renderPredictions and renderUpcoming completes with
\* both sections hidden
C11_NoFutureIsNull ==
  (Computed /\ data.future_gameweeks = <<>>) =>
    /\ buildPredictions(data, cumulativeCache) = { Null }
    /\ predictions = Null
    /\ error # "renderChart"
    /\ projectedTraces = 0
    /\ data.gameweeks # <<>> =>
         /\ pc = "ready"
         /\ predictionsDisplay = "none"
         /\ upcomingDisplay = "none"

\* a start-up completed over a played history without future gameweeks
C11_Witness ==
  /\ pc = "ready"
  /\ data.future_gameweeks = <<>>
  /\ Len(HistFixtures) = 2
  /\ predictions = Null
  /\ predictionsDisplay = "none"

\* the neutral strength
Neutral == [attack |-> IntNum(1), defence |-> IntNum(1)]

\* the teams without a played fixture in the table rows
Unplayed(rows) == { rows[i].team : i \in { k \in 1..Len(rows) : rows[k].p = 0 } }

\* C12: a team with no match played has attack 1 and defence 1 exactly,
\* whatever the results of the others, and a team of a future fixture without a
\* strength entry is given the same pair; so the away rate forecast against
\* such a home team is the away side's attack times avgGoals, and the away rate
\* of such an away team is the home side's defence times avgGoals
C12_NeutralStrength ==
  (Computed /\ data.future_gameweeks # <<>>) =>
    LET avgGoals == AvgGoals(standings)
        strength == Strength(standings, avgGoals)
        neutral == Unplayed(standings) \cup (Names \ Range(data.teams))
    IN /\ \A t \in Unplayed(standings) : strength[t] = Neutral
       /\ \A t \in Names \ Range(data.teams) :
            StrengthOf(strength, t) = Neutral
       /\ \A i \in 1..Len(data.future_gameweeks) :
            \A j \in 1..Len(data.future_gameweeks[i].fixtures) :
              LET f == data.future_gameweeks[i].fixtures[j] IN
                /\ f.home \in neutral =>
                     predictions.gameweeks[i].fixtures[j].lambdaA
                       = ToFixed2(NumMul(StrengthOf(strength, f.away).attack,
                                         avgGoals))
                /\ f.away \in neutral =>
                     predictions.gameweeks[i].fixtures[j].lambdaA
                       = ToFixed2(NumMul(StrengthOf(strength, f.home).defence,
                                         avgGoals))

\* a forecast for an unplayed home team against a team that has scored
C12_Witness ==
  /\ pc = "ready"
  /\ Goals(HistFixtures) >= 1
  /\ predictions # Null
  /\ \E t \in Unplayed(standings) :
       /\ data.future_gameweeks[1].fixtures[1].home = t
       /\ NumPos(predictions.gameweeks[1].fixtures[1].lambdaA)

\* the goals of the home sides in the fixtures fs
RECURSIVE HomeGoals(_)
HomeGoals(fs) ==
  IF fs = <<>> THEN 0 ELSE Head(fs).home_score + HomeGoals(Tail(fs))

\* the home-advantage multiplier of the specification: 1.1 without a historical
\* fixture, else (H / n) / ((H + A) / (2 n)), which is 2 H / (H + A), and 0 / 0
\* without a goal
ExpectedHomeAdv ==
  IF Len(HistFixtures) = 0 THEN Num(11, 10)
  ELSE IF Goals(HistFixtures) = 0 THEN NaN
  ELSE Num(2 * HomeGoals(HistFixtures), Goals(HistFixtures))

\* C13: the home-advantage multiplier is exactly 1.1 without a historical
\* fixture and otherwise (sumHomeGoals / matchCount) / ((sumHomeGoals +
\* sumAwayGoals) / (2 * matchCount)) over all historical fixtures; the home rate
\* of every forecast is attack * defence * avgGoals times this multiplier
C13_HomeAdvantage ==
  (Computed /\ data.future_gameweeks # <<>>) =>
    /\ HomeAdv(data) = ExpectedHomeAdv
    /\ LET avgGoals == AvgGoals(standings)
           strength == Strength(standings, avgGoals)
       IN \A i \in 1..Len(data.future_gameweeks) :
            \A j \in 1..Len(data.future_gameweeks[i].fixtures) :
              LET f == data.future_gameweeks[i].fixtures[j]
                  sH == StrengthOf(strength, f.home)
                  sA == StrengthOf(strength, f.away)
              IN predictions.gameweeks[i].fixtures[j].lambdaH
                   = ToFixed2(NumMul(NumMul(NumMul(sH.attack, sA.defence),
                                            avgGoals), ExpectedHomeAdv))

\* a forecast after a history with more home goals than away goals
C13_Witness ==
  /\ pc = "ready"
  /\ predictions # Null
  /\ Len(HistFixtures) = 1
  /\ HomeAdv(data) = IntNum(2)
  /\ NumPos(predictions.gameweeks[1].fixtures[1].lambdaH)

\* the loop variables of the score grid for future fixture f, from the table
\* in standings
GridFor(f) ==
  LET avgGoals == AvgGoals(standings)
      strength == Strength(standings, avgGoals)
      sH == StrengthOf(strength, f.home)
      sA == StrengthOf(strength, f.away)
  IN ScoreGrid(LambdaH(sH, sA, avgGoals, HomeAdv(data)),
               LambdaA(sH, sA, avgGoals))

\* the three outcome probabilities of g are numbers that sum to within 1e-3
\* of 1
Closed(g) ==
  /\ g.pHome >= 0 /\ g.pDraw >= 0 /\ g.pAway >= 0
  /\ 1000 * Abs(g.pHome + g.pDraw + g.pAway - POne) <= POne

\* C14 as stated: for every forecast of buildPredictions the probabilities
\* pHome + pDraw + pAway accumulated over the grid are within 1e-3 of 1
C14_ProbabilityClosure ==
  (Computed /\ predictions # Null) =>
    \A i \in 1..Len(FutureFixturesOf(data)) :
      Closed(GridFor(FutureFixturesOf(data)[i]))

RECURSIVE PointsIn(_, _)
PointsIn(t, fs) ==
  IF fs = <<>> THEN 0
  ELSE LET f == Head(fs)
           won == \/ f.home = t /\ f.home_score > f.away_score
                  \/ f.away = t /\ f.away_score > f.home_score
           drew == t \in {f.home, f.away} /\ f.home_score = f.away_score
       IN (IF won THEN 3 ELSE IF drew THEN 1 ELSE 0) + PointsIn(t, Tail(fs))

\* the first i gameweeks of d
Through(d, i) == SubSeq(d.gameweeks, 1, i)

\* series has one snapshot per gameweek of d, in order, and snapshot i gives
\* every team its points of gameweeks 1..i
SnapshotsOf(d, series) ==
  /\ Len(series) = Len(d.gameweeks)
  /\ \A i \in 1..Len(series) :
       /\ DOMAIN series[i] = Range(d.teams)
       /\ \A t \in Range(d.teams) :
            series[i][t] = IntNum(PointsIn(t, Flatten(Through(d, i))))

\* C16: computeCumulative, and v1's calculateCumulativePoints on well-formed
\* input, return one snapshot per gameweek in input order, snapshot i holding
\* for every team its points earned up to and including gameweek i; a later
\* gameweek changes no earlier snapshot
C16_Snapshots ==
  /\ Computed => SnapshotsOf(data, cumulativeCache)
  /\ (v1pc = "ready" /\ WellFormed(data)) => SnapshotsOf(data, cumulativePoints)

\* two gameweeks whose snapshots differ
C16_Witness ==
  /\ pc = "ready" /\ v1pc = "ready"
  /\ Len(cumulativeCache) = 2
  /\ Len(data.gameweeks[1].fixtures) = 1
  /\ Len(data.gameweeks[2].fixtures) = 1
  /\ cumulativeCache[1] # cumulativeCache[2]
  /\ cumulativePoints = cumulativeCache

\* the W/D/L letters the specification gives team t over the fixtures fs, in
\* order
RECURSIVE ResultsOf(_, _)
ResultsOf(t, fs) ==
  IF fs = <<>> THEN <<>>
  ELSE LET f == Head(fs)
           own == IF f.home = t THEN f.home_score ELSE f.away_score
           opp == IF f.home = t THEN f.away_score ELSE f.home_score
       IN (IF t \notin {f.home, f.away} THEN <<>>
           ELSE IF own > opp THEN <<"W">>
           ELSE IF own = opp THEN <<"D">> ELSE <<"L">>)
          \o ResultsOf(t, Tail(fs))

\* the goals of team t, and of its opponents, over the fixtures fs
RECURSIVE GoalsOf(_, _, _)
GoalsOf(t, fs, own) ==
  IF fs = <<>> THEN 0
  ELSE LET f == Head(fs) IN
         (IF f.home = t THEN (IF own THEN f.home_score ELSE f.away_score)
          ELSE IF f.away = t THEN (IF own THEN f.away_score ELSE f.home_score)
          ELSE 0) + GoalsOf(t, Tail(fs), own)

\* the number of letters c in the sequence rs
Count(rs, c) == Cardinality({ i \in 1..Len(rs) : rs[i] = c })

\* C17: the record getStandings returns for a team has played = the fixtures
\* it appears in, wins, draws and losses counted from its side, goals for and
\* against summed from its own and its opponents' scores, points summed over
\* those fixtures, and one W/D/L letter per fixture in processing order; after
\* a single decided fixture between the only two teams the winner's record is
\* {played 1, wins 1, points 3, ga 0} and it stands first
C17_TeamRecords ==
  Computed =>
    /\ \A i \in 1..Len(standings) :
         LET r == standings[i]
             rs == ResultsOf(r.team, HistFixtures)
         IN /\ r.team \in Range(data.teams)
            /\ r.p = Cardinality(Plays(r.team, HistFixtures))
            /\ r.results = rs
            /\ r.w = Count(rs, "W") /\ r.d = Count(rs, "D")
            /\ r.l = Count(rs, "L")
            /\ r.gf = GoalsOf(r.team, HistFixtures, TRUE)
            /\ r.ga = GoalsOf(r.team, HistFixtures, FALSE)
            /\ r.pts = PointsIn(r.team, HistFixtures)
    /\ (Len(HistFixtures) = 1 /\ Len(data.teams) = 2
          /\ HistFixtures[1].home_score > HistFixtures[1].away_score) =>
         LET f == HistFixtures[1] IN
           /\ standings[1].team = f.home /\ standings[2].team = f.away
           /\ standings[1].p = 1 /\ standings[1].w = 1
           /\ standings[1].pts = 3 /\ standings[1].gf = f.home_score
           /\ standings[1].ga = f.away_score
           /\ standings[2].p = 1 /\ standings[2].l = 1
           /\ standings[2].pts = 0 /\ standings[2].gf = f.away_score
           /\ standings[2].ga = f.home_score

\* a team with a win and then a draw
C17_Witness ==
  /\ pc = "ready"
  /\ \E i \in 1..Len(standings) :
       /\ standings[i].results = <<"W", "D">>
       /\ standings[i].pts = 4

\* the expected points of team t over the forecasts ps of one future gameweek,
\* as stored with each forecast
RECURSIVE ExpectedIn(_, _)
ExpectedIn(t, ps) ==
  IF ps = <<>> THEN IntNum(0)
  ELSE NumAdd(IF Head(ps).home = t THEN Head(ps).expPtsHome
              ELSE IF Head(ps).away = t THEN Head(ps).expPtsAway
              ELSE IntNum(0),
              ExpectedIn(t, Tail(ps)))

\* the expected points of team t over the first k future gameweeks of preds
RECURSIVE ExpectedThrough(_, _, _)
ExpectedThrough(t, preds, k) ==
  IF k = 0 THEN IntNum(0)
  ELSE NumAdd(ExpectedThrough(t, preds, k - 1),
              ExpectedIn(t, preds.gameweeks[k].fixtures))

\* the forecast q of future fixture f stores 3 * pWin + pDraw for each side
ExpectedPoints(f, q) ==
  LET g == GridFor(f) IN
    /\ q.home = f.home /\ q.away = f.away
    /\ q.expPtsHome = NumAdd(NumMul(FromUnits(g.pHome), IntNum(3)),
                             FromUnits(g.pDraw))
    /\ q.expPtsAway = NumAdd(NumMul(FromUnits(g.pAway), IntNum(3)),
                             FromUnits(g.pDraw))

\* C18 as stated: projectedCumulative has one snapshot per future gameweek, in
\* order, and snapshot k gives each team its points of the last historical
\* snapshot plus its expected points, 3 * pWin + pDraw from its side, over its
\* fixtures in the future gameweeks up to k
C18_ProjectionChaining ==
  (Computed /\ predictions # Null /\ cumulativeCache # <<>>) =>
    /\ Len(predictions.projectedCumulative) = Len(data.future_gameweeks)
    /\ Len(predictions.gameweeks) = Len(data.future_gameweeks)
    /\ \A k \in 1..Len(data.future_gameweeks) :
         /\ predictions.gameweeks[k].week = data.future_gameweeks[k].week
         /\ \A j \in 1..Len(data.future_gameweeks[k].fixtures) :
              ExpectedPoints(data.future_gameweeks[k].fixtures[j],
                             predictions.gameweeks[k].fixtures[j])
         /\ \A t \in Range(data.teams) :
              predictions.projectedCumulative[k][t]
                = NumAdd(cumulativeCache[Len(cumulativeCache)][t],
                         ExpectedThrough(t, predictions, k))

\* the cell probabilities of the score grid for future fixture f, in units
CellsFor(f) ==
  LET avgGoals == AvgGoals(standings)
      strength == Strength(standings, avgGoals)
      sH == StrengthOf(strength, f.home)
      sA == StrengthOf(strength, f.away)
  IN CHOOSE q \in
       { CellProbs(pH, pA) :
           pH \in { PoissonRow(LambdaH(sH, sA, avgGoals, HomeAdv(data))) },
           pA \in { PoissonRow(LambdaA(sH, sA, avgGoals)) } } : TRUE

\* cell (h, a) of the grid q holds a number that no cell exceeds and that no
\* earlier cell, h ascending then a ascending, reaches
FirstMaximal(q, h, a) ==
  /\ h \in 0..MAX /\ a \in 0..MAX
  /\ q[h][a] >= 0
  /\ \A i \in 0..MAX : \A j \in 0..MAX :
       /\ q[i][j] <= q[h][a]
       /\ (i < h \/ (i = h /\ j < a)) => q[i][j] < q[h][a]

\* C19 as stated: the predicted scoreline of every forecast is a cell of the
\* 0..10 x 0..10 grid of maximal probability, the first such cell in
\* enumeration order
C19_PredictedScoreline ==
  (Computed /\ predictions # Null) =>
    \A k \in 1..Len(data.future_gameweeks) :
      \A j \in 1..Len(data.future_gameweeks[k].fixtures) :
        FirstMaximal(CellsFor(data.future_gameweeks[k].fixtures[j]),
                     predictions.gameweeks[k].fixtures[j].predHome,
                     predictions.gameweeks[k].fixtures[j].predAway)

\* C20: for well-formed input the played counts of the table sum to twice the
\* number of historical fixtures, so totalGames equals matchCount, the goals for
\* sum to the home goals plus the away goals, and avgGoals is (homeGoals +
\* awayGoals) / (2 * matchCount), the denominator of the home-advantage ratio
C20_TotalGames ==
  (Computed /\ data.future_gameweeks # <<>>) =>
    /\ Total(standings, "p") = 2 * Len(HistFixtures)
    /\ Total(standings, "gf") = Goals(HistFixtures)
    /\ Total(standings, "ga") = Goals(HistFixtures)
    /\ AvgGoals(standings)
         = NumDiv(IntNum(Goals(HistFixtures)), IntNum(2 * Len(HistFixtures)))

\* a forecast after two fixtures with three goals
C20_Witness ==
  /\ pc = "ready"
  /\ predictions # Null
  /\ Len(HistFixtures) = 2
  /\ Goals(HistFixtures) = 3
  /\ AvgGoals(standings) = Num(3, 4)

\* C21: every record getStandings returns has played = wins + draws + losses
\* = the length of its results, points = 3 * wins + draws and gd = gf - ga;
\* over the table the wins sum to the losses and the goals for sum to the
\* goals against
C21_RecordIdentities ==
  Computed =>
    /\ \A i \in 1..Len(standings) :
         LET r == standings[i] IN
           /\ r.p = r.w + r.d + r.l
           /\ r.p = Len(r.results)
           /\ r.pts = 3 * r.w + r.d
           /\ r.gd = r.gf - r.ga
    /\ Total(standings, "w") = Total(standings, "l")
    /\ Total(standings, "gf") = Total(standings, "ga")

\* a table with a winner of positive goal difference, a loser and a team that
\* drew
C21_Witness ==
  /\ Computed
  /\ \E i, j, k \in 1..Len(standings) :
       /\ standings[i].w = 1 /\ standings[i].gd = 1
       /\ standings[j].l = 1 /\ standings[j].gd = -1
       /\ standings[k].d = 1 /\ standings[k].p = 1

\* C22: for a well-formed file with a gameweek or more, every team's points in
\* the table of getStandings are its value in the last snapshot of
\* computeCumulative, the snapshot buildPredictions starts the projection
\* from, and v1's calculateCumulativePoints returns the series of
\* computeCumulative
C22_AggregationsAgree ==
  (WellFormed(data) /\ Len(data.gameweeks) >= 1) =>
    /\ Computed =>
         /\ Len(standings) = Len(data.teams)
         /\ \A i \in 1..Len(standings) :
              /\ cumulativeCache[Len(cumulativeCache)][standings[i].team]
                   = IntNum(standings[i].pts)
              /\ LastActual(cumulativeCache)[standings[i].team]
                   = IntNum(standings[i].pts)
    /\ (Computed /\ v1pc = "ready") => cumulativePoints = cumulativeCache
    /\ v1pc = "ready" => cumulativePoints = computeCumulative(data)
    /\ calculateCumulativePoints(data) = computeCumulative(data)

\* both dashboards have aggregated two gameweeks, a team scoring in each
C22_Witness ==
  /\ pc = "ready" /\ v1pc = "ready"
  /\ WellFormed(data) /\ Len(data.gameweeks) = 2
  /\ \E i \in 1..Len(standings) :
       /\ standings[i].pts = 4
       /\ cumulativeCache[1][standings[i].team] \in {IntNum(1), IntNum(3)}
       /\ cumulativePoints[2][standings[i].team] = IntNum(4)

\* the module state of v2 that no listener assigns
Frame == <<data, cumulativeCache, positionCache, predictions>>

\* the weeks of the historical gameweeks
HistWeeks == { data.gameweeks[i].week : i \in 1..Len(data.gameweeks) }

\* C23: once computeAll has run, every step of the page in use (a click on a
\* pill, a table row, a trace, the clear-filter button or a mode button, a
\* change of the projections box, a hover or an unhover) leaves data,
\* cumulativeCache, positionCache and predictions as they are; toggleSelection
\* of the selected team leaves selectedTeam null; and selectedGameweek only
\* changes to the week of a historical gameweek
C23_UIFrame ==
  /\ [][ /\ (Computed /\ UIEvent) => UNCHANGED Frame
         /\ (Computed /\ Computed') => UNCHANGED Frame
         /\ (Computed /\ selectedTeam # "" /\ toggleSelection(selectedTeam))
              => selectedTeam' = ""
         /\ selectedGameweek' # selectedGameweek
              => selectedGameweek' \in HistWeeks ]_vars
  /\ []((Computed /\ selectedTeam # "") =>
          ENABLED (toggleSelection(selectedTeam) /\ selectedTeam' = ""))
  /\ [](selectedGameweek = 0 \/ selectedGameweek \in HistWeeks)

\* a page in use: a team is selected, the chart shows positions without the
\* projections of the forecast, and a hover has moved the fixtures table from
\* the last gameweek to the first
C23_Witness ==
  /\ pc = "ready"
  /\ selectedTeam = "B"
  /\ chartMode = "position"
  /\ predictions # Null /\ ~showProjections /\ projectedTraces = 0
  /\ Len(data.gameweeks) = 2 /\ selectedGameweek = 1
  /\ cumulativeCache = computeCumulative(data)

====
